---- MODULE Spec2Model ----
(***************************************************************************)
(* The emulated-Hue UPNP/SSDP responder of                                 *)
(* homeassistant/components/emulated_hue/upnp.py as a state machine:       *)
(* the supervisor (the caller of start() and stop()), the responder thread *)
(* (UPNPResponderThread.run, one action per statement that can block,      *)
(* raise or touch shared state) and the network that delivers datagrams    *)
(* to the listening socket.                                                *)
(*                                                                         *)
(* Sockets are "none" (not created), "open" or "closed"; "closed" means    *)
(* that close() was called on them by the program.                         *)
(***************************************************************************)
EXTENDS Integers, Sequences, FiniteSets, TLC

\* ------------------------------------------------------------------ bounds

\* Datagrams the network delivers during one run.
MaxArrivals == 2
\* Calls of stop() the supervisor makes during one run.
MaxStops == 2

\* Timestamps run from 0 to MaxTime, in half seconds.
MaxTime == 3
\* Items in the history of the tracked entity.
MaxHistory == 2
\* Items of a list handed to save_json.
MaxItems == 2

\* ------------------------------------------------------------ text helpers

\* "M-SEARCH" as code points.
MSEARCH == <<77, 45, 83, 69, 65, 82, 67, 72>>

\* bytes.decode('utf-8', errors='ignore') on byte strings whose bytes lie in
\* 0x00..0xDF or 0xF5..0xFF: an ASCII byte is its own code point, a lead byte
\* 0xC2..0xDF followed by a continuation byte 0x80..0xBF is one two-byte
\* character, every other byte is undecodable and is dropped.
RECURSIVE Decode(_)
Decode(b) ==
    IF b = <<>> THEN <<>>
    ELSE IF b[1] < 128 THEN <<b[1]>> \o Decode(Tail(b))
    ELSE IF /\ b[1] >= 194 /\ b[1] <= 223
            /\ Len(b) >= 2 /\ b[2] >= 128 /\ b[2] <= 191
         THEN <<(b[1] - 192) * 64 + (b[2] - 128)>> \o Decode(Tail(Tail(b)))
    ELSE Decode(Tail(b))

\* needle in text, for sequences of code points.
Contains(text, needle) ==
    \E i \in 1..(Len(text) - Len(needle) + 1) :
        SubSeq(text, i, i + Len(needle) - 1) = needle

\* The condition of the if statement that starts the handling of a datagram.
IsSearch(bytes) == Contains(Decode(bytes), MSEARCH)

\* Payloads the network may deliver (byte strings).
SearchPayload == <<32>> \o MSEARCH \o <<32, 42>>                  \* " M-SEARCH *"
NotifyPayload == <<78, 79, 84, 73, 70, 89>>                       \* "NOTIFY"
BrokenSearchPayload == <<77, 45, 83, 69, 255, 65, 82, 67, 72>>    \* M-SE <0xFF> ARCH
BrokenPayload == <<255, 128, 78>>                                 \* <0xFF> <0x80> N
SplitSearchPayload == <<77, 45, 83, 69, 195, 169, 65, 82, 67, 72>> \* "M-SE" e-acute "ARCH"

\* Sender addresses (host, port).
SenderA == <<"192.168.1.50", 5353>>
SenderB == <<"192.168.1.51", 1900>>

\* The datagrams the network may deliver: what recvfrom can return.
Datagrams ==
    { [data |-> SearchPayload, addr |-> SenderA],
      [data |-> SearchPayload, addr |-> SenderB],
      [data |-> NotifyPayload, addr |-> SenderA],
      [data |-> BrokenSearchPayload, addr |-> SenderB],
      [data |-> BrokenPayload, addr |-> SenderA],
      [data |-> SplitSearchPayload, addr |-> SenderB] }

\* A byte string is valid UTF-8 when no byte of it is undecodable.
RECURSIVE ValidUtf8(_)
ValidUtf8(b) ==
    IF b = <<>> THEN TRUE
    ELSE IF b[1] < 128 THEN ValidUtf8(Tail(b))
    ELSE IF /\ b[1] >= 194 /\ b[1] <= 223
            /\ Len(b) >= 2 /\ b[2] >= 128 /\ b[2] <= 191
         THEN ValidUtf8(Tail(Tail(b)))
    ELSE FALSE

\* ------------------------------------------------------- the reply payload

\* Constructor arguments advertise_ip and advertise_port.
AdvertiseIps == {"10.0.0.5", "192.168.1.2"}
AdvertisePorts == {8300}

\* resp_template, as a sequence of chunks: a chunk is a newline, a
\* replacement field or a piece of text without newlines.
resp_template ==
    << "HTTP/1.1 200 OK", "\n",
       "CACHE-CONTROL: max-age=60", "\n",
       "EXT:", "\n",
       "LOCATION: http://", "{0}", ":", "{1}", "/description.xml", "\n",
       "SERVER: FreeRTOS/6.0.5, UPnP/1.0, IpBridge/0.1", "\n",
       "hue-bridgeid: 1234", "\n",
       "ST: urn:schemas-upnp-org:device:basic:1", "\n",
       "USN: uuid:Socket-1_0-221438K0100073::urn:schemas-upnp-org:device:basic:1", "\n",
       "\n" >>

\* str.format(a0, a1): the replacement fields become str() of the arguments.
Format(t, a0, a1) ==
    [i \in 1..Len(t) |->
        IF t[i] = "{0}" THEN a0
        ELSE IF t[i] = "{1}" THEN ToString(a1)
        ELSE t[i]]

\* str.replace("\n", "\r\n").
RECURSIVE ReplaceNewlines(_)
ReplaceNewlines(t) ==
    IF t = <<>> THEN <<>>
    ELSE IF Head(t) = "\n" THEN <<"\r", "\n">> \o ReplaceNewlines(Tail(t))
    ELSE <<Head(t)>> \o ReplaceNewlines(Tail(t))

\* str.encode('utf-8'): a bytes object holding the (ASCII) text.
Encode(t) == [type |-> "bytes", chunks |-> t]

\* The reply with the line endings of the template left as they are.
UpnpResponseLF(ip, port) == Encode(Format(resp_template, ip, port))

\* self.upnp_response as __init__ computes it.
UpnpResponse(ip, port) == Encode(ReplaceNewlines(Format(resp_template, ip, port)))

\* ------------------------------------------------------------------- state

VARIABLES
    advertise_ip,     \* constructor argument
    advertise_port,   \* constructor argument
    upnp_response,    \* self.upnp_response
    _interrupted,     \* self._interrupted, the cancellation flag
    pc,               \* the statement of run() the thread is at
    ssdp_socket,      \* the listening socket: "none", "open", "closed"
    bound,            \* "unbound" or "bound": whether bind() has bound it
    resp_socket,      \* the reply socket of the current iteration
    data,             \* local variable data of run() (<<>> before the first read)
    addr,             \* local variable addr of run()
    last_log,         \* the last record the thread logged: "none", "info", "error"
    raised_at,        \* the statement whose exception ended the thread, or "none"
    inbox,            \* datagrams queued in the listening socket, oldest first
    narrived,         \* datagrams the network has delivered so far
    reads,            \* history: the datagrams recvfrom returned, in order
    sent,             \* history: the replies sendto transmitted, in order
    sup_pc,           \* the supervisor: "constructed", "running", "join", "stopped"
    sup_raised,       \* the exception a supervisor call raised last: "none", ...
    nstops,           \* calls of stop() made so far
    flag_set_at,      \* history: pc of the thread when stop() first set the flag
    stop_returns,     \* history: calls of stop() that returned normally
    sent_at_return,   \* history: Len(sent) when stop() first returned, else -1
    at_flag           \* history: Len(reads) and Len(sent) when stop() first
                      \* set the flag (<<-1, -1>> before)

\* The other components of the repository, each with a specification of its
\* own below: exactly_two_period_keys and HistoryAverageSensor of
\* components/sensor/history_average.py, load_json and save_json of
\* util/json.py.
VARIABLES
    conf,             \* exactly_two_period_keys: its argument
    param,            \* ... the number of CONF_PERIOD_KEYS the loop has visited
    provided,         \* ... its local variable provided
    conf_result,      \* ... its outcome: running, returned (a value) or raised
    _period,          \* HistoryAverageSensor._period, <<start, end>>
    value,            \* HistoryAverageSensor.value
    update_result,    \* the last call of update(): its outcome and what it read
    file,             \* the file at filename: whether it exists, its content
    loaded,           \* what the last call of load_json returned or raised
    saved,            \* the data of the last save_json that succeeded since
    shrunk            \* whether that save_json wrote less than the file held

vars == << advertise_ip, advertise_port, upnp_response, _interrupted, pc,
           ssdp_socket, bound, resp_socket, data, addr, last_log, raised_at,
           inbox, narrived, reads, sent, sup_pc, sup_raised, nstops,
           flag_set_at, stop_returns, sent_at_return, at_flag,
           conf, param, provided, conf_result, _period, value, update_result,
           file, loaded, saved, shrunk >>

conf_vars == << conf, param, provided, conf_result >>
sensor_vars == << _period, value, update_result >>
json_vars == << file, loaded, saved, shrunk >>
lib_vars == << conf_vars, sensor_vars, json_vars >>

config_vars == << advertise_ip, advertise_port, upnp_response >>
sup_vars == << sup_pc, sup_raised, nstops, flag_set_at, stop_returns,
              sent_at_return, at_flag >>
net_vars == << inbox, narrived >>
thread_vars == << pc, ssdp_socket, bound, resp_socket, data, addr, last_log,
                  raised_at, reads, sent >>

\* The statements of the initialization part of run(), in order.
InitSteps == <<"socket", "setblocking", "reuseaddr", "multicast_if",
               "add_membership", "bind">>
InitPcs == {InitSteps[i] : i \in 1..Len(InitSteps)}
\* The thread has ended: run() returned, or an exception left it.
ThreadExited == pc \in {"returned", "raised"}

\* exactly_two_period_keys is not being called.
ConfIdle ==
    /\ conf = <<>>
    /\ param = 0
    /\ provided = 0
    /\ conf_result = [status |-> "none"]

\* No HistoryAverageSensor exists.
SensorIdle ==
    /\ _period = <<>>
    /\ value = <<>>
    /\ update_result = [status |-> "none"]

\* No JSON file is in use.
JsonIdle ==
    /\ file = [exists |-> FALSE]
    /\ loaded = [status |-> "none"]
    /\ saved = [status |-> "none"]
    /\ shrunk = FALSE

\* State after UPNPResponderThread.__init__.
Init ==
    /\ advertise_ip \in AdvertiseIps
    /\ advertise_port \in AdvertisePorts
    /\ upnp_response = UpnpResponse(advertise_ip, advertise_port)
    /\ _interrupted = FALSE
    /\ pc = "unstarted"
    /\ ssdp_socket = "none"
    /\ bound = "unbound"
    /\ resp_socket = "none"
    /\ data = <<>>
    /\ addr = <<>>
    /\ last_log = "none"
    /\ raised_at = "none"
    /\ inbox = <<>>
    /\ narrived = 0
    /\ reads = <<>>
    /\ sent = <<>>
    /\ sup_pc = "constructed"
    /\ sup_raised = "none"
    /\ nstops = 0
    /\ flag_set_at = "none"
    /\ stop_returns = 0
    /\ sent_at_return = -1
    /\ at_flag = <<-1, -1>>
    /\ ConfIdle /\ SensorIdle /\ JsonIdle

\* ------------------------------------------------------------ the network

\* A datagram reaches the host. It is queued when the listening socket is
\* open and bound, and is dropped otherwise.
Arrive(d) ==
    /\ narrived < MaxArrivals
    /\ narrived' = narrived + 1
    /\ inbox' = IF ssdp_socket = "open" /\ bound # "unbound"
                THEN Append(inbox, d) ELSE inbox
    /\ UNCHANGED << lib_vars, config_vars, _interrupted, thread_vars, sup_vars >>

\* --------------------------------------------------------- the supervisor

\* Thread.start(): the thread begins run(); start() returns at once.
Start ==
    /\ sup_pc = "constructed"
    /\ pc = "unstarted"
    /\ pc' = "socket"
    /\ sup_pc' = "running"
    /\ sup_raised' = "none"
    /\ UNCHANGED << lib_vars, config_vars, _interrupted, ssdp_socket, bound, resp_socket,
                    data, addr, last_log, raised_at, reads, sent, net_vars,
                    nstops, flag_set_at, stop_returns, sent_at_return, at_flag >>

\* StopSetFlag closing the listening socket itself to wake the thread.
StopSetFlagClosesSocket ==
    /\ sup_pc \in {"constructed", "running", "stopped"}
    /\ nstops < MaxStops
    /\ nstops' = nstops + 1
    /\ _interrupted' = TRUE
    /\ flag_set_at' = IF _interrupted THEN flag_set_at ELSE pc
    /\ at_flag' = IF _interrupted THEN at_flag ELSE <<Len(reads), Len(sent)>>
    /\ sup_pc' = "join"
    /\ ssdp_socket' = IF ssdp_socket = "open" THEN "closed" ELSE ssdp_socket
    /\ UNCHANGED << lib_vars, config_vars, pc, bound, resp_socket, data, addr,
                    last_log, raised_at, reads, sent, net_vars, sup_raised,
                    stop_returns, sent_at_return >>

\* stop(), first statement: self._interrupted = True.
StopSetFlag ==
    /\ sup_pc \in {"constructed", "running", "stopped"}
    /\ nstops < MaxStops
    /\ nstops' = nstops + 1
    /\ _interrupted' = TRUE
    /\ flag_set_at' = IF _interrupted THEN flag_set_at ELSE pc
    /\ at_flag' = IF _interrupted THEN at_flag ELSE <<Len(reads), Len(sent)>>
    /\ sup_pc' = "join"
    /\ UNCHANGED << lib_vars, config_vars, thread_vars, net_vars, sup_raised,
                    stop_returns, sent_at_return >>

\* StopJoin with a join that returns only after run() returned normally.
StopJoinCleanExitOnly ==
    /\ sup_pc = "join"
    /\ \/ /\ pc = "unstarted"
          /\ sup_raised' = "RuntimeError"
          /\ sup_pc' = "constructed"
          /\ UNCHANGED << stop_returns, sent_at_return >>
       \/ /\ pc = "returned"
          /\ sup_raised' = "none"
          /\ sup_pc' = "stopped"
          /\ stop_returns' = stop_returns + 1
          /\ sent_at_return' = IF stop_returns = 0 THEN Len(sent) ELSE sent_at_return
    /\ UNCHANGED << lib_vars, config_vars, _interrupted, thread_vars, net_vars,
                    nstops, flag_set_at, at_flag >>

\* stop(), second statement: self.join(). It returns once the thread has
\* ended, and raises RuntimeError on a thread that was never started.
StopJoin ==
    /\ sup_pc = "join"
    /\ \/ /\ pc = "unstarted"
          /\ sup_raised' = "RuntimeError"
          /\ sup_pc' = "constructed"
          /\ UNCHANGED << stop_returns, sent_at_return >>
       \/ /\ ThreadExited
          /\ sup_raised' = "none"
          /\ sup_pc' = "stopped"
          /\ stop_returns' = stop_returns + 1
          /\ sent_at_return' = IF stop_returns = 0 THEN Len(sent) ELSE sent_at_return
    /\ UNCHANGED << lib_vars, config_vars, _interrupted, thread_vars, net_vars,
                    nstops, flag_set_at, at_flag >>

\* -------------------------------------------------------------- the thread

\* An exception that nothing in run() catches ends the thread where it is.
Raise ==
    /\ pc' = "raised"
    /\ raised_at' = pc

\* clean_socket_close(sock): log the shutdown, close the socket (its queue
\* goes with it).
clean_socket_close ==
    /\ last_log' = "info"
    /\ ssdp_socket' = "closed"
    /\ inbox' = <<>>

\* ssdp_socket = socket.socket(AF_INET, SOCK_DGRAM)
CreateSocket(ok) ==
    /\ pc = "socket"
    /\ IF ok THEN /\ ssdp_socket' = "open"
                  /\ pc' = "setblocking"
                  /\ UNCHANGED raised_at
             ELSE /\ Raise
                  /\ UNCHANGED ssdp_socket
    /\ UNCHANGED << lib_vars, config_vars, _interrupted, bound, resp_socket, data, addr,
                    last_log, reads, sent, net_vars, sup_vars >>

\* ssdp_socket.setblocking(False) and the three setsockopt calls
\* (SO_REUSEADDR, IP_MULTICAST_IF, IP_ADD_MEMBERSHIP), one step each.
SetOption(ok) ==
    /\ pc \in {"setblocking", "reuseaddr", "multicast_if", "add_membership"}
    /\ IF ok THEN /\ pc' = CASE pc = "setblocking" -> "reuseaddr"
                             [] pc = "reuseaddr" -> "multicast_if"
                             [] pc = "multicast_if" -> "add_membership"
                             [] pc = "add_membership" -> "bind"
                  /\ UNCHANGED raised_at
             ELSE Raise
    /\ UNCHANGED << lib_vars, config_vars, _interrupted, ssdp_socket, bound, resp_socket,
                    data, addr, last_log, reads, sent, net_vars, sup_vars >>

\* ssdp_socket.bind(("", 1900)) or ssdp_socket.bind((host_ip_addr, 1900)):
\* the two branches differ in the address only, which nothing else reads.
Bind(ok) ==
    /\ pc = "bind"
    /\ IF ok THEN /\ bound' = "bound"
                  /\ pc' = "check"
                  /\ UNCHANGED raised_at
             ELSE /\ Raise
                  /\ UNCHANGED bound
    /\ UNCHANGED << lib_vars, config_vars, _interrupted, ssdp_socket, resp_socket, data,
                    addr, last_log, reads, sent, net_vars, sup_vars >>

\* CheckInterrupted without the test of the flag at the top of the loop.
CheckNeverReturns ==
    /\ pc = "check"
    /\ pc' = "select"
    /\ UNCHANGED << lib_vars, config_vars, _interrupted, ssdp_socket, bound, resp_socket,
                    data, addr, last_log, raised_at, reads, sent, net_vars,
                    sup_vars >>

\* CheckInterrupted returning without clean_socket_close.
CheckReturnsWithoutClose ==
    /\ pc = "check"
    /\ pc' = IF _interrupted THEN "returned" ELSE "select"
    /\ UNCHANGED << lib_vars, config_vars, _interrupted, ssdp_socket, bound, resp_socket,
                    data, addr, last_log, raised_at, reads, sent, net_vars,
                    sup_vars >>

\* Top of the loop: if self._interrupted: clean_socket_close; return.
CheckInterrupted ==
    /\ pc = "check"
    /\ IF _interrupted
       THEN /\ clean_socket_close
            /\ pc' = "returned"
       ELSE /\ pc' = "select"
            /\ UNCHANGED << ssdp_socket, last_log, inbox >>
    /\ UNCHANGED << lib_vars, config_vars, _interrupted, bound, resp_socket, data, addr,
                    raised_at, reads, sent, narrived, sup_vars >>

\* select.select([ssdp_socket], [], [ssdp_socket], 2) finds the socket
\* readable: the thread goes on to recvfrom.
SelectReadable ==
    /\ pc = "select"
    /\ inbox # <<>>
    /\ pc' = "recvfrom"
    /\ UNCHANGED << lib_vars, config_vars, _interrupted, ssdp_socket, bound, resp_socket,
                    data, addr, last_log, raised_at, reads, sent, net_vars,
                    sup_vars >>

\* select times out after 2 seconds with nothing to read: continue.
SelectTimeout ==
    /\ pc = "select"
    /\ inbox = <<>>
    /\ pc' = "check"
    /\ UNCHANGED << lib_vars, config_vars, _interrupted, ssdp_socket, bound, resp_socket,
                    data, addr, last_log, raised_at, reads, sent, net_vars,
                    sup_vars >>

\* select or recvfrom raises socket.error: control goes to the except clause.
ReceiveError ==
    /\ pc \in {"select", "recvfrom"}
    /\ pc' = "except"
    /\ UNCHANGED << lib_vars, config_vars, _interrupted, ssdp_socket, bound, resp_socket,
                    data, addr, last_log, raised_at, reads, sent, net_vars,
                    sup_vars >>

\* Recvfrom handing out the newest queued datagram instead of the oldest.
RecvfromNewest ==
    /\ pc = "recvfrom"
    /\ inbox # <<>>
    /\ data' = inbox[Len(inbox)].data
    /\ addr' = inbox[Len(inbox)].addr
    /\ inbox' = SubSeq(inbox, 1, Len(inbox) - 1)
    /\ reads' = Append(reads, inbox[Len(inbox)])
    /\ pc' = "match"
    /\ UNCHANGED << lib_vars, config_vars, _interrupted, ssdp_socket, bound,
                    resp_socket, last_log, raised_at, sent, narrived, sup_vars >>

\* data, addr = ssdp_socket.recvfrom(1024)
Recvfrom ==
    /\ pc = "recvfrom"
    /\ inbox # <<>>
    /\ data' = Head(inbox).data
    /\ addr' = Head(inbox).addr
    /\ inbox' = Tail(inbox)
    /\ reads' = Append(reads, Head(inbox))
    /\ pc' = "match"
    /\ UNCHANGED << lib_vars, config_vars, _interrupted, ssdp_socket, bound, resp_socket,
                    last_log, raised_at, sent, narrived, sup_vars >>

\* Except treating every socket error as the end of the loop.
ExceptAlwaysExits ==
    /\ pc = "except"
    /\ clean_socket_close
    /\ pc' = "returned"
    /\ UNCHANGED << lib_vars, config_vars, _interrupted, bound, resp_socket, data, addr,
                    raised_at, reads, sent, narrived, sup_vars >>

\* Except logging the error and continuing whatever the flag says.
ExceptLogsAndContinues ==
    /\ pc = "except"
    /\ last_log' = "error"
    /\ pc' = "check"
    /\ UNCHANGED << lib_vars, config_vars, _interrupted, ssdp_socket, inbox,
                    bound, resp_socket, data, addr, raised_at, reads, sent,
                    narrived, sup_vars >>

\* except socket.error: a clean exit when the flag is set, otherwise log the
\* error and continue.
Except ==
    /\ pc = "except"
    /\ IF _interrupted
       THEN /\ clean_socket_close
            /\ pc' = "returned"
       ELSE /\ last_log' = "error"
            /\ pc' = "check"
            /\ UNCHANGED << ssdp_socket, inbox >>
    /\ UNCHANGED << lib_vars, config_vars, _interrupted, bound, resp_socket, data, addr,
                    raised_at, reads, sent, narrived, sup_vars >>

\* Match testing data.decode(...).startswith("M-SEARCH").
MatchStartsWith ==
    /\ pc = "match"
    /\ pc' = IF /\ Len(Decode(data)) >= Len(MSEARCH)
                /\ SubSeq(Decode(data), 1, Len(MSEARCH)) = MSEARCH
             THEN "resp_socket" ELSE "check"
    /\ UNCHANGED << lib_vars, config_vars, _interrupted, ssdp_socket, bound, resp_socket,
                    data, addr, last_log, raised_at, reads, sent, net_vars,
                    sup_vars >>

\* Match decoding strictly (data.decode('utf-8')): UnicodeDecodeError on
\* bytes that are not valid UTF-8.
MatchStrictDecode ==
    /\ pc = "match"
    /\ IF ValidUtf8(data)
       THEN /\ pc' = IF IsSearch(data) THEN "resp_socket" ELSE "check"
            /\ UNCHANGED raised_at
       ELSE Raise
    /\ UNCHANGED << lib_vars, config_vars, _interrupted, ssdp_socket, bound, resp_socket,
                    data, addr, last_log, reads, sent, net_vars, sup_vars >>

\* if "M-SEARCH" in data.decode('utf-8', errors='ignore'):
Match ==
    /\ pc = "match"
    /\ pc' = IF IsSearch(data) THEN "resp_socket" ELSE "check"
    /\ UNCHANGED << lib_vars, config_vars, _interrupted, ssdp_socket, bound, resp_socket,
                    data, addr, last_log, raised_at, reads, sent, net_vars,
                    sup_vars >>

\* resp_socket = socket.socket(AF_INET, SOCK_DGRAM)
CreateRespSocket(ok) ==
    /\ pc = "resp_socket"
    /\ IF ok THEN /\ resp_socket' = "open"
                  /\ pc' = "sendto"
                  /\ UNCHANGED raised_at
             ELSE /\ Raise
                  /\ UNCHANGED resp_socket
    /\ UNCHANGED << lib_vars, config_vars, _interrupted, ssdp_socket, bound, data, addr,
                    last_log, reads, sent, net_vars, sup_vars >>

\* Reply with the payload built anew from the address of the sender.
ReplyRecomputed ==
    [payload |-> UpnpResponse(addr[1], addr[2]), dest |-> addr, k |-> Len(reads)]

\* The datagram resp_socket.sendto(self.upnp_response, addr) transmits; k is
\* the number of the datagram read that it answers.
Reply == [payload |-> upnp_response, dest |-> addr, k |-> Len(reads)]

\* resp_socket.sendto(self.upnp_response, addr)
Sendto(ok) ==
    /\ pc = "sendto"
    /\ IF ok THEN /\ sent' = Append(sent, Reply)
                  /\ pc' = "resp_close"
                  /\ UNCHANGED raised_at
             ELSE /\ Raise
                  /\ UNCHANGED sent
    /\ UNCHANGED << lib_vars, config_vars, _interrupted, ssdp_socket, bound, resp_socket,
                    data, addr, last_log, reads, net_vars, sup_vars >>

\* CloseRespSocket going back to the wait, past the test of the flag.
CloseRespSocketSkipsCheck ==
    /\ pc = "resp_close"
    /\ resp_socket' = "closed"
    /\ pc' = "select"
    /\ UNCHANGED << lib_vars, config_vars, _interrupted, ssdp_socket, bound, data, addr,
                    last_log, raised_at, reads, sent, net_vars, sup_vars >>

\* CloseRespSocket without the close.
CloseRespSocketLeavesOpen ==
    /\ pc = "resp_close"
    /\ pc' = "check"
    /\ UNCHANGED << lib_vars, config_vars, _interrupted, ssdp_socket, bound, data, addr,
                    resp_socket, last_log, raised_at, reads, sent, net_vars, sup_vars >>

\* resp_socket.close(), and back to the top of the loop.
CloseRespSocket ==
    /\ pc = "resp_close"
    /\ resp_socket' = "closed"
    /\ pc' = "check"
    /\ UNCHANGED << lib_vars, config_vars, _interrupted, ssdp_socket, bound, data, addr,
                    last_log, raised_at, reads, sent, net_vars, sup_vars >>

\* One step of UPNPResponderThread.run.
ThreadStep ==
    \/ \E ok \in BOOLEAN : CreateSocket(ok)
    \/ \E ok \in BOOLEAN : SetOption(ok)
    \/ \E ok \in BOOLEAN : Bind(ok)
    \/ CheckInterrupted
    \/ SelectReadable
    \/ SelectTimeout
    \/ ReceiveError
    \/ Recvfrom
    \/ Except
    \/ Match
    \/ \E ok \in BOOLEAN : CreateRespSocket(ok)
    \/ \E ok \in BOOLEAN : Sendto(ok)
    \/ CloseRespSocket

Next ==
    \/ \E d \in Datagrams : Arrive(d)
    \/ Start
    \/ StopSetFlag
    \/ StopJoin
    \/ ThreadStep

Spec == Init /\ [][Next]_vars

\* The thread is scheduled as long as it can run, and a join whose thread has
\* ended returns.
FairSpec == Spec /\ WF_vars(ThreadStep) /\ WF_vars(StopJoin)

\* ------------------------------------------------------ claims: vocabulary

\* The replies sent for the k-th datagram read.
RepliesTo(k) == {i \in 1..Len(sent) : sent[i].k = k}

\* The handling of the k-th datagram read is over.
Handled(k) ==
    \/ k < Len(reads)
    \/ pc \notin {"match", "resp_socket", "sendto", "resp_close"}

\* An exception raised while the k-th datagram was handled ended the thread.
RaisedWhileHandling(k) ==
    /\ pc = "raised"
    /\ raised_at \in {"match", "resp_socket", "sendto"}
    /\ k = Len(reads)

\* Exactly one reply was sent for the k-th datagram read, to its sender.
OneReplyToSender(k) ==
    /\ Cardinality(RepliesTo(k)) = 1
    /\ \A i \in RepliesTo(k) : sent[i].dest = reads[k].addr

\* ------------------------------------------------------------------ claims

\* C1: on a started responder whose initialization succeeded, once stop()
\* has returned the listening socket is closed (at least: not open) and no
\* reply has been sent since the return, whatever datagrams, receive errors
\* or send errors occurred. The code breaks this: an error of sendto, or of
\* the creation of the reply socket, ends the thread with the listening
\* socket open.
C1_StopClosesAndSilences ==
    (stop_returns > 0 /\ raised_at \notin InitPcs)
        => (ssdp_socket # "open" /\ Len(sent) = sent_at_return)

\* C2: once stop() has set the flag on a started responder and waits in
\* join, the thread eventually ends and stop() returns, whatever the traffic.
C2_StopTerminates ==
    (sup_pc = "join" /\ pc # "unstarted") ~> (ThreadExited /\ sup_pc = "stopped")

\* C2 witness: the flag was set while the thread waited in select, and
\* stop() has returned after the thread left the loop.
C2_Witness ==
    /\ flag_set_at = "select"
    /\ stop_returns > 0
    /\ pc = "returned"

\* C3, as claimed: every datagram read whose decoded text contains
\* "M-SEARCH" gets exactly one reply, sent to its sender, and every other
\* datagram read gets none.
C3_ExactlyOneReply ==
    \A k \in 1..Len(reads) :
        Handled(k) =>
            IF IsSearch(reads[k].data) THEN OneReplyToSender(k)
            ELSE RepliesTo(k) = {}

\* C3, amended: a datagram read whose decoded text contains "M-SEARCH" gets
\* exactly one reply, to its sender, unless opening the reply socket or the
\* send raised an error, in which case it gets none; every other datagram
\* read gets none.
C3_OneReplyUnlessSendFails ==
    \A k \in 1..Len(reads) :
        Handled(k) =>
            IF IsSearch(reads[k].data) /\ ~RaisedWhileHandling(k)
            THEN OneReplyToSender(k)
            ELSE RepliesTo(k) = {}

\* C3 witness: a datagram holding "M-SEARCH" in its middle was answered once,
\* to its sender, and the next one, without "M-SEARCH", was not answered.
C3_Witness ==
    /\ Len(reads) = 2
    /\ pc = "check"
    /\ IsSearch(reads[1].data) /\ SubSeq(reads[1].data, 1, 8) # MSEARCH
    /\ ~IsSearch(reads[2].data)
    /\ Len(sent) = 1
    /\ sent[1].dest = reads[1].addr

\* C4, as claimed: a datagram read whose bytes are not valid UTF-8 gets no
\* reply, and decoding it does not end the thread (errors of the send, which
\* C7 is about, are left out of what is claimed here).
C4_UndecodableNeverAnswered ==
    \A k \in 1..Len(reads) :
        ~ValidUtf8(reads[k].data) =>
            /\ RepliesTo(k) = {}
            /\ ~(pc = "raised" /\ raised_at = "match" /\ k = Len(reads))

\* C4, amended: decoding a datagram whose bytes are not valid UTF-8 never
\* raises; its undecodable bytes are dropped. When the bytes that remain do
\* not contain "M-SEARCH", no reply is sent for it and the loop goes back to
\* the top with the listening socket open; when they do, it is handled as a
\* search: a reply is attempted, and sent to its sender unless opening the
\* reply socket or the send raises.
C4_UndecodableBytesIgnored ==
    /\ [](\A k \in 1..Len(reads) :
            ~ValidUtf8(reads[k].data) =>
                /\ ~(pc = "raised" /\ raised_at = "match")
                /\ ~IsSearch(reads[k].data) =>
                        (RepliesTo(k) = {} /\ ~RaisedWhileHandling(k))
                /\ (IsSearch(reads[k].data) /\ Handled(k)
                        /\ ~RaisedWhileHandling(k)) => OneReplyToSender(k))
    /\ [][(pc = "match" /\ pc' # pc /\ ~ValidUtf8(data))
            => IF IsSearch(data)
               THEN pc' = "resp_socket"
               ELSE (pc' = "check" /\ ssdp_socket' = "open" /\ sent' = sent)]_vars

\* C4 witness: both kinds of undecodable datagram were handled: one whose
\* remaining bytes spell "M-SEARCH" (answered), one whose do not (ignored).
C4_Witness ==
    /\ Len(reads) = 2
    /\ pc = "check"
    /\ ssdp_socket = "open"
    /\ ~ValidUtf8(reads[1].data) /\ IsSearch(reads[1].data)
    /\ ~ValidUtf8(reads[2].data) /\ ~IsSearch(reads[2].data)
    /\ Len(sent) = 1 /\ sent[1].k = 1

\* C5: a failure of the initialization is surfaced to the supervisor, and
\* the responder reads no datagram and sends no reply after it. Stated where
\* the supervisor has made all its calls: after a failed initialization,
\* once stop() has returned too, some call of the supervisor has raised.
C5_InitFailureSurfaced ==
    (pc = "raised" /\ raised_at \in InitPcs)
        => /\ reads = <<>> /\ sent = <<>>
           /\ sup_pc = "stopped" => sup_raised # "none"

\* C6: when the except clause finds the flag not set, the thread does not
\* end: it sends nothing, leaves the listening socket open and goes back to
\* the top of the loop.
C6_ReceiveErrorNotFatal ==
    [][(pc = "except" /\ ~_interrupted /\ pc' # pc)
        => (pc' = "check" /\ ssdp_socket' = "open" /\ sent' = sent
            /\ raised_at' = "none")]_vars

\* C6 witness: after one receive error was logged and survived, a second one
\* is in the except clause with no datagram read in between and the flag
\* not set.
C6_Witness ==
    /\ pc = "except"
    /\ last_log = "error"
    /\ ~_interrupted
    /\ reads = <<>>
    /\ ssdp_socket = "open"

\* C7: outside the statements that use it, and when the thread has ended,
\* no reply socket is open. The code breaks this: an error of sendto skips
\* resp_socket.close().
C7_ReplySocketReleased ==
    pc \notin {"sendto", "resp_close"} => resp_socket # "open"

\* C8: stop() called right after start(), no datagram having been read and
\* the initialization raising no error: wherever the thread was when the
\* flag was set, stop() returns only after run() returned with the listening
\* socket closed and no reply sent, and the thread does end.
C8_StopRightAfterStart ==
    /\ []((stop_returns > 0 /\ flag_set_at # "unstarted"
            /\ reads = <<>> /\ raised_at = "none")
          => (pc = "returned" /\ ssdp_socket = "closed" /\ sent = <<>>))
    /\ (sup_pc = "join" /\ stop_returns = 0
            /\ flag_set_at \in InitPcs \cup {"check", "select"})
        ~> ThreadExited

\* C8 witness: the flag was set before the thread opened the socket; the
\* thread has initialized, seen the flag, closed the socket and returned,
\* and stop() has returned.
C8_Witness ==
    /\ flag_set_at = "socket"
    /\ stop_returns > 0
    /\ pc = "returned"
    /\ bound # "unbound"
    /\ ssdp_socket = "closed"
    /\ reads = <<>>

\* C9: a call of stop() on a responder whose thread has ended returns, and
\* no step of it changes the socket or clears the flag.
C9_StopAfterExit ==
    /\ [][(ThreadExited /\ sup_pc' # sup_pc)
            => (_interrupted' /\ ssdp_socket' = ssdp_socket /\ pc' = pc)]_vars
    /\ (ThreadExited /\ sup_pc = "join") ~> (sup_pc = "stopped")

\* C9 witness: stop() has returned a second time.
C9_Witness ==
    /\ stop_returns = 2
    /\ ThreadExited
    /\ sup_pc = "stopped"

\* C10: self.upnp_response always is the reply built from the constructor's
\* advertise_ip and advertise_port, and every reply sent carries it.
C10_ReplyBytesFixed ==
    /\ upnp_response = UpnpResponse(advertise_ip, advertise_port)
    /\ \A i \in 1..Len(sent) :
        sent[i].payload = UpnpResponse(advertise_ip, advertise_port)

\* C10 witness: two replies were sent, to different senders.
C10_Witness ==
    /\ Len(sent) = 2
    /\ sent[1].dest # sent[2].dest

\* The numbers k <= n that are in the set S, in increasing order.
RECURSIVE Filter(_, _)
Filter(n, S) ==
    IF n = 0 THEN <<>>
    ELSE IF n \in S THEN Append(Filter(n - 1, S), n)
    ELSE Filter(n - 1, S)

\* The numbers of the datagrams the replies sent answer, in the order sent.
SentKs == [i \in 1..Len(sent) |-> sent[i].k]

\* The datagrams read for which the decision to reply has been carried out.
Decided == Len(reads) - (IF pc \in {"match", "resp_socket", "sendto"} THEN 1 ELSE 0)

\* One datagram at a time, oldest first: a read takes the head of the queue,
\* while no earlier datagram is being handled; the network adds at the tail;
\* a reply is sent for the datagram read last, and to its sender.
OneAtATimeInOrder ==
    /\ [][reads' # reads =>
            /\ pc = "recvfrom" /\ inbox # <<>>
            /\ reads' = Append(reads, Head(inbox)) /\ inbox' = Tail(inbox)
            /\ resp_socket # "open"
            /\ \A k \in 1..Len(reads) : Handled(k)]_vars
    /\ [][(inbox' # inbox /\ reads' = reads) =>
            \/ inbox' = <<>>
            \/ \E d \in Datagrams : inbox' = Append(inbox, d)]_vars
    /\ [][sent' # sent =>
            /\ reads' = reads /\ reads # <<>>
            /\ sent' = Append(sent, [payload |-> upnp_response,
                                     dest |-> reads[Len(reads)].addr,
                                     k |-> Len(reads)])]_vars

\* C11, as claimed: datagrams are handled one at a time in the order the
\* socket delivers them, and the replies sent are, in order, the answers to
\* all the datagrams read that contain "M-SEARCH".
C11_RepliesAreMatchingQueries ==
    /\ OneAtATimeInOrder
    /\ [](SentKs = Filter(Decided, {k \in 1..Len(reads) : IsSearch(reads[k].data)}))

\* C11, amended: as claimed, except that a datagram containing "M-SEARCH"
\* for which opening the reply socket or the send raised is missing from the
\* replies.
C11_RepliesInArrivalOrder ==
    /\ OneAtATimeInOrder
    /\ [](SentKs = Filter(Decided, {k \in 1..Len(reads) :
                                        /\ IsSearch(reads[k].data)
                                        /\ ~RaisedWhileHandling(k)}))

\* C11 witness: two searches from different senders were queued together and
\* both were answered, the older one first.
C11_Witness ==
    /\ Len(reads) = 2 /\ Len(sent) = 2
    /\ reads[1].addr # reads[2].addr
    /\ sent[1].dest = reads[1].addr /\ sent[2].dest = reads[2].addr
    /\ at_flag = <<-1, -1>>

\* ------------------------------------------- the reply payload on its own

\* Values of advertise_ip and advertise_port without newlines.
ReplyIps == {"10.0.0.5", "192.168.1.2", "0.0.0.0", "255.255.255.255",
             "hass.local", "[fe80::1]", "localhost", ""}
ReplyPorts == {1, 80, 443, 1900, 8080, 8300, 65535}

\* The thread, the supervisor and the network before start().
ThreadUnstarted ==
    /\ _interrupted = FALSE
    /\ pc = "unstarted"
    /\ ssdp_socket = "none"
    /\ bound = "unbound"
    /\ resp_socket = "none"
    /\ data = <<>>
    /\ addr = <<>>
    /\ last_log = "none"
    /\ raised_at = "none"
    /\ inbox = <<>>
    /\ narrived = 0
    /\ reads = <<>>
    /\ sent = <<>>
    /\ sup_pc = "constructed"
    /\ sup_raised = "none"
    /\ nstops = 0
    /\ flag_set_at = "none"
    /\ stop_returns = 0
    /\ sent_at_return = -1
    /\ at_flag = <<-1, -1>>

\* __init__ has been entered with its arguments; the reply is not built yet.
ReplyInit ==
    /\ advertise_ip \in ReplyIps
    /\ advertise_port \in ReplyPorts
    /\ upnp_response = <<>>
    /\ ThreadUnstarted
    /\ ConfIdle /\ SensorIdle /\ JsonIdle

\* __init__ assigns self.upnp_response.
BuildReply ==
    /\ upnp_response = <<>>
    /\ upnp_response' = UpnpResponse(advertise_ip, advertise_port)
    /\ UNCHANGED << advertise_ip, advertise_port, _interrupted, thread_vars,
                    net_vars, sup_vars, lib_vars >>

ReplySpec == ReplyInit /\ [][BuildReply]_vars

\* A text, as chunks, cut at every CR LF; cur is the line collected so far.
RECURSIVE SplitCRLF(_, _)
SplitCRLF(t, cur) ==
    IF t = <<>> THEN <<cur>>
    ELSE IF Len(t) >= 2 /\ t[1] = "\r" /\ t[2] = "\n"
         THEN <<cur>> \o SplitCRLF(Tail(Tail(t)), "")
    ELSE SplitCRLF(Tail(t), cur \o t[1])

\* The header lines of the template, with the LOCATION line filled in.
HeaderLines(ip, port) ==
    << "HTTP/1.1 200 OK",
       "CACHE-CONTROL: max-age=60",
       "EXT:",
       "LOCATION: http://" \o ip \o ":" \o ToString(port) \o "/description.xml",
       "SERVER: FreeRTOS/6.0.5, UPnP/1.0, IpBridge/0.1",
       "hue-bridgeid: 1234",
       "ST: urn:schemas-upnp-org:device:basic:1",
       "USN: uuid:Socket-1_0-221438K0100073::urn:schemas-upnp-org:device:basic:1" >>

\* No LF without a CR right before it.
NoBareLF(t) == \A i \in 1..Len(t) : t[i] = "\n" => (i > 1 /\ t[i - 1] = "\r")

\* The text ends with CR LF CR LF.
EndsWithBlankLine(t) ==
    /\ Len(t) >= 4
    /\ SubSeq(t, Len(t) - 3, Len(t)) = <<"\r", "\n", "\r", "\n">>

\* C12: for newline-free advertise_ip and advertise_port, the reply built is
\* a bytes object whose text has no bare LF, ends with a blank line, and
\* splits on CR LF into exactly the header lines of the template, the
\* LOCATION line carrying the address and port (then the blank line, which
\* the split shows as two empty strings).
C12_ReplyIsCrlfHeaders ==
    upnp_response # <<>> =>
        /\ upnp_response.type = "bytes"
        /\ NoBareLF(upnp_response.chunks)
        /\ EndsWithBlankLine(upnp_response.chunks)
        /\ SplitCRLF(upnp_response.chunks, "")
            = HeaderLines(advertise_ip, advertise_port) \o <<"", "">>

\* C12 witness: the reply for 10.0.0.5 and 8300 has been built and its
\* fourth line is the LOCATION line of the scenario of the specification.
C12_Witness ==
    /\ upnp_response # <<>>
    /\ advertise_ip = "10.0.0.5" /\ advertise_port = 8300
    /\ SplitCRLF(upnp_response.chunks, "")[4]
        = "LOCATION: http://10.0.0.5:8300/description.xml"

\* ------------------------------------------------ exactly_two_period_keys

\* A responder that was constructed and is left alone.
ResponderIdle ==
    /\ advertise_ip = "10.0.0.5"
    /\ advertise_port = 8300
    /\ upnp_response = UpnpResponse(advertise_ip, advertise_port)
    /\ ThreadUnstarted

\* CONF_START, CONF_END, CONF_DURATION in the order of CONF_PERIOD_KEYS.
CONF_PERIOD_KEYS == <<"start", "end", "duration">>

\* Values a key of the configuration can have: None, and two values that are
\* not None (one of them empty).
ConfValues == {"None", "", "{{ now() }}"}

\* The configurations: any of the three keys present, with any of the values.
Confs ==
    UNION { [S -> ConfValues] :
            S \in SUBSET {CONF_PERIOD_KEYS[i] : i \in 1..Len(CONF_PERIOD_KEYS)} }

\* exactly_two_period_keys(conf) is entered: provided = 0.
ConfInit ==
    /\ conf \in Confs
    /\ param = 0
    /\ provided = 0
    /\ conf_result = [status |-> "running"]
    /\ ResponderIdle /\ SensorIdle /\ JsonIdle

\* VisitKey counting every key that is present, None or not.
VisitKeyCountsNone ==
    /\ conf_result.status = "running"
    /\ param < Len(CONF_PERIOD_KEYS)
    /\ param' = param + 1
    /\ provided' = IF CONF_PERIOD_KEYS[param + 1] \in DOMAIN conf
                   THEN provided + 1 ELSE provided
    /\ UNCHANGED << conf, conf_result, sensor_vars, json_vars, config_vars,
                    _interrupted, thread_vars, net_vars, sup_vars >>

\* One turn of the for loop:
\* if param in conf and conf[param] is not None: provided += 1
VisitKey ==
    /\ conf_result.status = "running"
    /\ param < Len(CONF_PERIOD_KEYS)
    /\ param' = param + 1
    /\ provided' = IF /\ CONF_PERIOD_KEYS[param + 1] \in DOMAIN conf
                      /\ conf[CONF_PERIOD_KEYS[param + 1]] # "None"
                   THEN provided + 1 ELSE provided
    /\ UNCHANGED << conf, conf_result, sensor_vars, json_vars, config_vars,
                    _interrupted, thread_vars, net_vars, sup_vars >>

\* After the loop: if provided != 2: raise vol.Invalid(...); return conf.
ConfFinish ==
    /\ conf_result.status = "running"
    /\ param = Len(CONF_PERIOD_KEYS)
    /\ conf_result' = IF provided # 2
                      THEN [status |-> "raised", exc |-> "vol.Invalid"]
                      ELSE [status |-> "returned", value |-> conf]
    /\ UNCHANGED << conf, param, provided, sensor_vars, json_vars, config_vars,
                    _interrupted, thread_vars, net_vars, sup_vars >>

ConfSpec == ConfInit /\ [][VisitKey \/ ConfFinish]_vars

\* The keys of c that are present with a value that is not None.
ProvidedKeys(c) == {k \in DOMAIN c : c[k] # "None"}

\* C13: exactly_two_period_keys returns the configuration, unchanged, when
\* exactly two of start, end, duration are present with a value that is not
\* None, and raises vol.Invalid in every other case.
C13_ExactlyTwoAccepted ==
    conf_result.status # "running" =>
        IF Cardinality(ProvidedKeys(conf)) = 2
        THEN conf_result = [status |-> "returned", value |-> conf]
        ELSE conf_result = [status |-> "raised", exc |-> "vol.Invalid"]

\* C13 witness: a configuration with all three keys, one of them None, was
\* accepted.
C13_Witness ==
    /\ conf_result.status = "returned"
    /\ DOMAIN conf = {"start", "end", "duration"}
    /\ conf["end"] = "None"

\* ---------------------------------------------------- HistoryAverageSensor

\* math.floor of a timestamp given in half seconds, in seconds.
Floor(t) == t \div 2

Min(a, b) == IF a <= b THEN a ELSE b

Times == 0..MaxTime

\* float(item.state) of the numeric states the tracked entity takes.
States == {0, 5}

\* history.state_changes_during_period(hass, start, end, entity_id): the
\* states of the entity between start and end, oldest first, none of them
\* changed after now.
Histories(start, end, now) ==
    { h \in UNION { [1..n -> [state : States, last_changed : start..Min(end, now)]]
                    : n \in 0..MaxHistory } :
        \A i \in 1..(Len(h) - 1) : h[i].last_changed <= h[i + 1].last_changed }

\* The for loop over the history (lines 185-196), from item i on: acc holds
\* last_state (seen tells it from None), last_time, total_elapsed and
\* intervals.
RECURSIVE Accumulate(_, _, _)
Accumulate(h, i, acc) ==
    IF i > Len(h) THEN acc
    ELSE LET elapsed == h[i].last_changed - acc.last_time
             counted == acc.seen
         IN Accumulate(h, i + 1,
              [seen |-> TRUE,
               last_state |-> h[i].state,
               last_time |-> h[i].last_changed,
               total_elapsed |-> IF counted THEN acc.total_elapsed + elapsed
                                 ELSE acc.total_elapsed,
               intervals |->
                 IF ~counted THEN acc.intervals
                 ELSE IF acc.last_state \in DOMAIN acc.intervals
                 THEN [acc.intervals EXCEPT ![acc.last_state] = @ + elapsed]
                 ELSE [s \in DOMAIN acc.intervals \cup {acc.last_state} |->
                         IF s = acc.last_state THEN elapsed ELSE acc.intervals[s]]])

\* Lines 179-203: the loop, then the time from the last item to the end of
\* the measure, min(end_timestamp, now_timestamp).
Intervals(h, end, now) ==
    LET acc == Accumulate(h, 1, [seen |-> FALSE, last_state |-> 0,
                                 last_time |-> 0, total_elapsed |-> 0, intervals |-> <<>>])
        elapsed == Min(end, now) - acc.last_time
    IN IF ~acc.seen THEN acc
       ELSE [acc EXCEPT
               !.total_elapsed = @ + elapsed,
               !.intervals =
                 IF acc.last_state \in DOMAIN acc.intervals
                 THEN [acc.intervals EXCEPT ![acc.last_state] = @ + elapsed]
                 ELSE [s \in DOMAIN acc.intervals \cup {acc.last_state} |->
                         IF s = acc.last_state THEN elapsed ELSE acc.intervals[s]]]

\* The sum of state * intervals[state] over the states in S.
RECURSIVE WeightedSum(_, _)
WeightedSum(intervals, S) ==
    IF S = {} THEN 0
    ELSE LET s == CHOOSE x \in S : TRUE
         IN s * intervals[s] + WeightedSum(intervals, S \ {s})

\* Lines 205-208: None for an empty history; otherwise the sum over the
\* states of state * (intervals[state] / total_elapsed), kept as a fraction;
\* the division raises ZeroDivisionError when total_elapsed is 0.
Average(acc) ==
    IF DOMAIN acc.intervals = {} THEN [kind |-> "None"]
    ELSE IF acc.total_elapsed = 0 THEN [kind |-> "ZeroDivisionError"]
    ELSE [kind |-> "number",
          num |-> WeightedSum(acc.intervals, DOMAIN acc.intervals),
          den |-> acc.total_elapsed]

\* State after HistoryAverageSensor.__init__ at time t0:
\* self._period = (utcnow(), utcnow()); self.value = 0.
SensorInit ==
    /\ \E t0 \in Times : _period = <<t0, t0>>
    /\ value = [kind |-> "number", num |-> 0, den |-> 1]
    /\ update_result = [status |-> "none"]
    /\ ResponderIdle /\ ConfIdle /\ JsonIdle

\* update(): update_period() leaves the period <<start, end>> (the old one
\* when a template fails), the clock reads now, and, unless the period is
\* the one of the last call to the second and already over, h is read and
\* averaged.
Update(start, end, now, h) ==
    /\ _period' = <<start, end>>
    /\ IF /\ Floor(start) = Floor(_period[1])
          /\ Floor(end) = Floor(_period[2])
          /\ Floor(end) <= Floor(now)
       THEN /\ update_result' = [status |-> "skipped"]
            /\ UNCHANGED value
       ELSE LET v == Average(Intervals(h, end, now))
            IN IF v.kind = "ZeroDivisionError"
               THEN /\ update_result' = [status |-> "raised",
                                         exc |-> "ZeroDivisionError",
                                         history |-> h, now |-> now]
                    /\ UNCHANGED value
               ELSE /\ update_result' = [status |-> "computed",
                                         history |-> h, now |-> now]
                    /\ value' = v
    /\ UNCHANGED << conf_vars, json_vars, config_vars, _interrupted,
                    thread_vars, net_vars, sup_vars >>

SensorNext ==
    \E start \in Times, end \in Times, now \in Times :
        /\ start <= end
        /\ \E h \in Histories(start, end, now) : Update(start, end, now, h)

SensorSpec == SensorInit /\ [][SensorNext]_vars

\* The time the i-th state of h lasted: up to the next change, the last one
\* up to min(end, now).
Lasted(h, i, end, now) ==
    IF i < Len(h) THEN h[i + 1].last_changed - h[i].last_changed
    ELSE Min(end, now) - h[i].last_changed

RECURSIVE SumLasted(_, _, _, _, _)
SumLasted(h, i, end, now, weighted) ==
    IF i > Len(h) THEN 0
    ELSE (IF weighted THEN h[i].state ELSE 1) * Lasted(h, i, end, now)
         + SumLasted(h, i + 1, end, now, weighted)

\* C14: when update() recomputes from a history that is not empty, it ends
\* with value a number, the time-weighted average of the states: value times
\* the total time equals the sum of each state times the time it lasted.
\* The code breaks this where the total time is 0: the division raises
\* ZeroDivisionError and value keeps what it had.
C14_AverageWellDefined ==
    (update_result.status \in {"computed", "raised"}
        /\ update_result.history # <<>>)
    => /\ update_result.status = "computed"
       /\ value.kind = "number"
       /\ value.den # 0
       /\ value.num * SumLasted(update_result.history, 1, _period[2],
                                update_result.now, FALSE)
            = value.den * SumLasted(update_result.history, 1, _period[2],
                                    update_result.now, TRUE)

\* The same, for histories whose total time is not 0: this part holds.
C14_AverageWhenTimeElapsed ==
    (update_result.status \in {"computed", "raised"}
        /\ update_result.history # <<>>
        /\ SumLasted(update_result.history, 1, _period[2],
                     update_result.now, FALSE) # 0)
    => /\ update_result.status = "computed"
       /\ value.kind = "number"
       /\ value.den # 0
       /\ value.num * SumLasted(update_result.history, 1, _period[2],
                                update_result.now, FALSE)
            = value.den * SumLasted(update_result.history, 1, _period[2],
                                    update_result.now, TRUE)


\* ------------------------------------------------------------- util/json.py

\* Python values.  A dict is a function from its keys to their values, so
\* that two dicts are equal as Python's == has them: same keys, same values,
\* in any order.  A list equals a list and a tuple a tuple, never each other.
PyNone == [t |-> "None"]
PyBool(b) == [t |-> "bool", b |-> b]
PyInt(n) == [t |-> "int", n |-> n]
PyStr(str) == [t |-> "str", s |-> str]
PyList(items) == [t |-> "list", items |-> items]
PyTuple(items) == [t |-> "tuple", items |-> items]
PyDict(map) == [t |-> "dict", map |-> map]
\* A value json.dumps has no encoding for, such as a set or object().
PyObject == [t |-> "object"]

\* The default of the indent parameter of save_json.
indent == 4

\* A JSON text is a sequence of tokens: punctuation, literals, numbers,
\* strings, and the newline with n spaces that indent puts between items.
Punct(c) == [k |-> "punct", s |-> c]
Literal(w) == [k |-> "literal", s |-> w]
Number(digits) == [k |-> "number", s |-> digits]
String(str) == [k |-> "string", s |-> str]
Newline(n) == [k |-> "ws", s |-> ToString(n)]

\* json.dumps raises TypeError for d: a value without encoding, or, under
\* sort_keys, a dict whose keys do not compare (str with int).
RECURSIVE Serialisable(_)
Serialisable(d) ==
    CASE d.t \in {"None", "bool", "int", "str"} -> TRUE
      [] d.t \in {"list", "tuple"} ->
            \A i \in 1..Len(d.items) : Serialisable(d.items[i])
      [] d.t = "dict" ->
            /\ \A key \in DOMAIN d.map : key.t \in {"str", "int"}
            /\ \A k1 \in DOMAIN d.map, k2 \in DOMAIN d.map : k1.t = k2.t
            /\ \A key \in DOMAIN d.map : Serialisable(d.map[key])
      [] OTHER -> FALSE

\* The strings used as keys, in the order sorted() puts them.
KeyNames == <<"1", "a", "b">>
Rank(str) == CHOOSE i \in 1..Len(KeyNames) : KeyNames[i] = str

\* key1 < key2 for two keys of one type.
KeyLess(key1, key2) ==
    IF key1.t = "int" THEN key1.n < key2.n ELSE Rank(key1.s) < Rank(key2.s)

\* sorted(keys): the keys in ascending order.
RECURSIVE SortedKeys(_)
SortedKeys(keys) ==
    IF keys = {} THEN <<>>
    ELSE LET least == CHOOSE key \in keys :
                         \A other \in keys \ {key} : KeyLess(key, other)
         IN <<least>> \o SortedKeys(keys \ {least})

\* The JSON string a dict key becomes: a str as it is, an int in decimal.
KeyString(key) == IF key.t = "int" THEN ToString(key.n) ELSE key.s

\* json.dumps(d, sort_keys=True, indent=indent) of a serialisable d nested
\* at level: the tokens of the text.
RECURSIVE EncodeValue(_, _)
RECURSIVE EncodeItems(_, _, _)
RECURSIVE EncodeMembers(_, _, _)
EncodeItems(items, i, level) ==
    IF i > Len(items) THEN <<>>
    ELSE <<Newline(indent * level)>> \o EncodeValue(items[i], level)
         \o (IF i < Len(items) THEN <<Punct(",")>> ELSE <<>>)
         \o EncodeItems(items, i + 1, level)
EncodeMembers(map, keys, level) ==
    IF keys = <<>> THEN <<>>
    ELSE <<Newline(indent * level), String(KeyString(Head(keys))), Punct(":")>>
         \o EncodeValue(map[Head(keys)], level)
         \o (IF Len(keys) > 1 THEN <<Punct(",")>> ELSE <<>>)
         \o EncodeMembers(map, Tail(keys), level)
EncodeValue(d, level) ==
    CASE d.t = "None" -> <<Literal("null")>>
      [] d.t = "bool" -> <<Literal(IF d.b THEN "true" ELSE "false")>>
      [] d.t = "int" -> <<Number(ToString(d.n))>>
      [] d.t = "str" -> <<String(d.s)>>
      [] d.t \in {"list", "tuple"} ->
            IF d.items = <<>> THEN <<Punct("["), Punct("]")>>
            ELSE <<Punct("[")>> \o EncodeItems(d.items, 1, level + 1)
                 \o <<Newline(indent * level), Punct("]")>>
      [] d.t = "dict" ->
            IF DOMAIN d.map = {} THEN <<Punct("{"), Punct("}")>>
            ELSE <<Punct("{")>>
                 \o EncodeMembers(d.map, SortedKeys(DOMAIN d.map), level + 1)
                 \o <<Newline(indent * level), Punct("}")>>

dumps(d) == EncodeValue(d, 0)

\* The integers save_json is given.
Ints == {1}
IntOf(digits) == CHOOSE n \in Ints : ToString(n) = digits

\* json.load: the decoder.  Each Parse operator answers ok with the value
\* read and the tokens after it, or not ok.
RECURSIVE SkipWs(_)
SkipWs(ts) ==
    IF ts # <<>> /\ Head(ts).k = "ws" THEN SkipWs(Tail(ts)) ELSE ts

Failed == [ok |-> FALSE]

RECURSIVE ParseValue(_)
RECURSIVE ParseElements(_, _)
RECURSIVE ParseMembers(_, _)
\* After "[" or ",": an element, then "," or "]"; items is the list so far.
ParseElements(ts, items) ==
    LET r == ParseValue(ts)
    IN IF ~r.ok THEN Failed
       ELSE LET rest == SkipWs(r.rest)
            IN IF rest = <<>> THEN Failed
               ELSE IF Head(rest) = Punct("]")
               THEN [ok |-> TRUE, val |-> PyList(Append(items, r.val)),
                     rest |-> Tail(rest)]
               ELSE IF Head(rest) = Punct(",")
               THEN ParseElements(Tail(rest), Append(items, r.val))
               ELSE Failed
\* After "{" or ",": "key": value, then "," or "}"; map is the dict so far,
\* where a later key replaces an equal earlier one.
ParseMembers(ts, map) ==
    LET t1 == SkipWs(ts)
    IN IF Len(t1) < 2 \/ Head(t1).k # "string" \/ t1[2] # Punct(":")
       THEN Failed
       ELSE LET key == PyStr(Head(t1).s)
                r == ParseValue(Tail(Tail(t1)))
            IN IF ~r.ok THEN Failed
               ELSE LET rest == SkipWs(r.rest)
                        map2 == [x \in DOMAIN map \cup {key} |->
                                   IF x = key THEN r.val ELSE map[x]]
                    IN IF rest = <<>> THEN Failed
                       ELSE IF Head(rest) = Punct("}")
                       THEN [ok |-> TRUE, val |-> PyDict(map2),
                             rest |-> Tail(rest)]
                       ELSE IF Head(rest) = Punct(",")
                       THEN ParseMembers(Tail(rest), map2)
                       ELSE Failed
ParseValue(ts) ==
    LET t1 == SkipWs(ts)
    IN IF t1 = <<>> THEN Failed
       ELSE LET tok == Head(t1)
                after == Tail(t1)
            IN CASE tok = Literal("null") ->
                      [ok |-> TRUE, val |-> PyNone, rest |-> after]
                 [] tok = Literal("true") ->
                      [ok |-> TRUE, val |-> PyBool(TRUE), rest |-> after]
                 [] tok = Literal("false") ->
                      [ok |-> TRUE, val |-> PyBool(FALSE), rest |-> after]
                 [] tok.k = "number" ->
                      [ok |-> TRUE, val |-> PyInt(IntOf(tok.s)), rest |-> after]
                 [] tok.k = "string" ->
                      [ok |-> TRUE, val |-> PyStr(tok.s), rest |-> after]
                 [] tok = Punct("[") ->
                      IF SkipWs(after) # <<>> /\ Head(SkipWs(after)) = Punct("]")
                      THEN [ok |-> TRUE, val |-> PyList(<<>>),
                            rest |-> Tail(SkipWs(after))]
                      ELSE ParseElements(after, <<>>)
                 [] tok = Punct("{") ->
                      IF SkipWs(after) # <<>> /\ Head(SkipWs(after)) = Punct("}")
                      THEN [ok |-> TRUE, val |-> PyDict(<<>>),
                            rest |-> Tail(SkipWs(after))]
                      ELSE ParseMembers(after, <<>>)
                 [] OTHER -> Failed

\* json.load(fh) of a file holding ts: the value, or JSONDecodeError when
\* ts is not one JSON value, tokens after the value included.
loads(ts) ==
    LET r == ParseValue(ts)
    IN IF r.ok /\ SkipWs(r.rest) = <<>>
       THEN [status |-> "returned", data |-> r.val]
       ELSE [status |-> "raised", exc |-> "JSONDecodeError"]

\* fh.write(text) at position pos of a file holding content.
WriteAt(content, pos, text) ==
    SubSeq(content, 1, pos) \o text
    \o SubSeq(content, pos + Len(text) + 1, Len(content))

\* The values save_json is called with.
Scalars == {PyNone, PyBool(TRUE), PyInt(1), PyStr("a")}
Elements == Scalars \cup {PyList(<<PyInt(1)>>), PyTuple(<<PyInt(1)>>), PyObject}
Keys == {PyStr("a"), PyStr("b"), PyInt(1)}
SaveData ==
    { PyList(items) : items \in UNION { [1..n -> Elements] : n \in 0..MaxItems } }
    \cup { PyDict(map) : map \in UNION { [K -> Scalars] : K \in SUBSET Keys } }

\* No file yet, or a file that an earlier run of the program saved.
JsonInit ==
    /\ file \in {[exists |-> FALSE],
                 [exists |-> TRUE,
                  content |-> dumps(PyDict([key \in Keys \ {PyInt(1)} |-> PyStr("a")]))]}
    /\ loaded = [status |-> "none"]
    /\ saved = [status |-> "none"]
    /\ shrunk = FALSE
    /\ ResponderIdle /\ ConfIdle /\ SensorIdle

\* load_json(filename).
load_json ==
    /\ loaded' = IF ~file.exists
                 THEN [status |-> "returned", data |-> PyDict(<<>>)]
                 ELSE loads(file.content)
    /\ UNCHANGED << file, saved, shrunk >>
    /\ UNCHANGED << conf_vars, sensor_vars, config_vars, _interrupted,
                    thread_vars, net_vars, sup_vars >>

\* save_json writing over the old content without emptying or truncating.
save_json_overwriting(d) ==
    /\ loaded' = [status |-> "none"]
    /\ IF ~Serialisable(d)
       THEN UNCHANGED << file, saved, shrunk >>
       ELSE LET json_data == dumps(d)
                opened == IF file.exists THEN file.content ELSE <<>>
                written == WriteAt(opened, 0, json_data)
            IN /\ file' = [exists |-> TRUE, content |-> written]
               /\ saved' = [status |-> "saved", data |-> d]
               /\ shrunk' = (file.exists /\ Len(json_data) < Len(file.content))
    /\ UNCHANGED << conf_vars, sensor_vars, config_vars, _interrupted,
                    thread_vars, net_vars, sup_vars >>

\* save_json(filename, d): json.dumps first, which may raise; then open
\* with 'w+', which empties or creates the file; seek(0), write, truncate().
save_json(d) ==
    /\ loaded' = [status |-> "none"]
    /\ IF ~Serialisable(d)
       THEN UNCHANGED << file, saved, shrunk >>
       ELSE LET json_data == dumps(d)
                opened == <<>>
                written == WriteAt(opened, 0, json_data)
                truncated == SubSeq(written, 1, Len(json_data))
            IN /\ file' = [exists |-> TRUE, content |-> truncated]
               /\ saved' = [status |-> "saved", data |-> d]
               /\ shrunk' = (file.exists /\ Len(json_data) < Len(file.content))
    /\ UNCHANGED << conf_vars, sensor_vars, config_vars, _interrupted,
                    thread_vars, net_vars, sup_vars >>

JsonNext == load_json \/ \E d \in SaveData : save_json(d)

JsonSpec == JsonInit /\ [][JsonNext]_vars

\* d is made of lists, dicts with str keys, str, int, bool and None only.
RECURSIVE PlainJson(_)
PlainJson(d) ==
    CASE d.t \in {"None", "bool", "int", "str"} -> TRUE
      [] d.t = "list" -> \A i \in 1..Len(d.items) : PlainJson(d.items[i])
      [] d.t = "dict" -> /\ \A key \in DOMAIN d.map : key.t = "str"
                         /\ \A key \in DOMAIN d.map : PlainJson(d.map[key])
      [] OTHER -> FALSE

C16_ExitOnlyOnFlag ==
    [][(~ThreadExited /\ ThreadExited' /\ bound = "bound")
          => (_interrupted /\ pc' = "returned" /\ ssdp_socket' = "closed")]_vars


\* C17: when the except clause finds the flag set, the socket error is a
\* clean exit: that step closes the listening socket and returns from run(),
\* logging the shutdown and not the error, and sends nothing.
C17_ErrorWithFlagSetIsCleanExit ==
    [][(pc = "except" /\ _interrupted /\ pc' # pc)
          => /\ pc' = "returned"
             /\ ssdp_socket' = "closed"
             /\ last_log' = "info"
             /\ sent' = sent
             /\ resp_socket' = resp_socket]_vars

\* The flag was set while the thread was about to read, the read raised, and
\* the thread has returned without reading or sending anything more.
C17_Witness ==
    /\ pc = "returned"
    /\ flag_set_at = "recvfrom"
    /\ Len(reads) = at_flag[1]
    /\ Len(sent) = at_flag[2]
    /\ ssdp_socket = "closed"
    /\ last_log = "info"


\* C18: once stop() has set the flag, the thread reads at most one more
\* datagram and sends at most one more reply, and begins no wait: the only
\* wait after the flag is the one the thread was at when the flag was set.
C18_AtMostOneMoreAfterFlag ==
    /\ [](_interrupted => /\ Len(reads) <= at_flag[1] + 1
                          /\ Len(sent) <= at_flag[2] + 1)
    /\ [][(_interrupted /\ pc' = "select") => pc = "select"]_vars

\* The flag was set during a wait; the thread then read one datagram, sent
\* its reply and returned.
C18_Witness ==
    /\ pc = "returned"
    /\ flag_set_at = "select"
    /\ Len(reads) = at_flag[1] + 1
    /\ Len(sent) = at_flag[2] + 1
    /\ inbox = <<>>
    /\ narrived = MaxArrivals


\* C19: the flag is written by stop() only, from false to true only (no step
\* of the thread changes it, nothing resets it); the steps of the supervisor
\* (start, stop) leave the listening socket, the reply socket and the reply
\* bytes as they are, and the reply bytes are never written after
\* construction.
C19_FlagIsTheOnlySharedState ==
    [][/\ (_interrupted' # _interrupted)
            => (~_interrupted /\ _interrupted' /\ sup_pc' = "join"
                /\ nstops' = nstops + 1 /\ thread_vars' = thread_vars)
       /\ (sup_vars' # sup_vars)
            => (ssdp_socket' = ssdp_socket /\ bound' = bound
                /\ resp_socket' = resp_socket)
       /\ (thread_vars' # thread_vars) => (_interrupted' = _interrupted)
       /\ upnp_response' = upnp_response]_vars

\* stop() has set the flag and waits in join while the thread, which has
\* not yet seen the flag, holds the listening socket open.
C19_Witness ==
    /\ _interrupted
    /\ sup_pc = "join"
    /\ pc = "select"
    /\ bound = "bound"
    /\ ssdp_socket = "open"


\* C20: the listening socket is closed once, by the step that returns from
\* run(), after which the thread takes no step, so it never waits on or
\* reads a closed socket; a reply socket is open only between its creation
\* and its close within one handling step, so none is open while the thread
\* is at the top of the loop, waiting, reading or matching, and none is
\* open when the next one is created.
C20_SocketLifecycle ==
    /\ [](pc \in {"select", "recvfrom"} => ssdp_socket = "open")
    /\ [](pc \in {"check", "select", "recvfrom", "except", "match",
                  "resp_socket"} => resp_socket # "open")
    /\ [][(ssdp_socket' # ssdp_socket /\ ssdp_socket' = "closed")
             => (ssdp_socket = "open" /\ pc # "returned" /\ pc' = "returned")]_vars
    /\ [][(pc' = "returned" /\ pc # "returned")
             => (ssdp_socket = "open" /\ ssdp_socket' = "closed")]_vars
    /\ [][ThreadExited => thread_vars' = thread_vars]_vars

\* Two replies went out, each through a reply socket of its own, and the
\* thread has returned with both sockets closed.
C20_Witness ==
    /\ pc = "returned"
    /\ ssdp_socket = "closed"
    /\ resp_socket = "closed"
    /\ Len(sent) = MaxArrivals

====
